---- MODULE Spec2Model ----
(***************************************************************************)
(* The ARM SPE record decoder of tools/perf/util/arm-spe-decoder/          *)
(* arm-spe-decoder.c as a state machine: one decoder instance, the Source  *)
(* it pulls spans from, and the Packet Decoder it calls on the cursor.     *)
(*                                                                         *)
(* A u64 is the set of its set bit positions (a subset of 0..63), so that   *)
(* |, & and the field macros keep their 64-bit meaning.  A size_t length   *)
(* is the pair [hi, lo] standing for hi * 2^31 + lo, so that lengths of    *)
(* 2^31 and above, and their conversion to int, are exact.                 *)
(***************************************************************************)
EXTENDS Integers, Sequences, FiniteSets, TLC

\* ------------------------------------------------------------------ bounds
\* The Address selectors put through arm_spe_calc_ip on its own: 0..MaxAddrIndex
\* (the five supported ones and the first unsupported ones).
MaxAddrIndex == 6

\* The Address packets each of two concurrent decoder instances dispatches.
MaxTwoStream == 2

\* Most cells (bytes) in one ordinary span handed out by the Source.
MaxSpanCells == 2
\* Most cells the Source hands out, over all its spans, before it reports
\* length 0.
MaxStream == 3

\* --------------------------------------------------------------- u64 values
U64Bits == 0..63
Zero64 == {}
\* (u64)-1
AllOnes64 == U64Bits

\* ------------------------------------------------ size_t lengths and C ints
\* INT_MAX: bit 31 of a length is its hi part's low bit.
IntMax == 2147483647

LenOf(n) == [hi |-> 0, lo |-> n]

\* !decoder->len
LenIsZero(l) == l.hi = 0 /\ l.lo = 0

\* len >= n, for a small n
LenAtLeast(l, n) == l.hi > 0 \/ l.lo >= n

\* "decoder->len -= ret" left out: the length stays what it was.
LenSub_Keep(l, n) == l

\* decoder->len -= n, for 0 < n <= len
LenSub(l, n) ==
    IF l.lo >= n THEN [hi |-> l.hi, lo |-> l.lo - n]
    ELSE [hi |-> l.hi - 1, lo |-> ((IntMax - n) + 1) + l.lo]

\* "return decoder->len;" from a function returning int: the size_t is
\* converted to int, which keeps its low 32 bits (bit 31 is the sign).
ToInt(l) == IF l.hi % 2 = 0 THEN l.lo ELSE (l.lo - IntMax) - 1

\* ------------------------------------------------------------ header values
\* enum arm_spe_pkt_type, and one value outside it
PktTypes == {"ARM_SPE_BAD", "ARM_SPE_PAD", "ARM_SPE_END", "ARM_SPE_TIMESTAMP",
             "ARM_SPE_ADDRESS", "ARM_SPE_COUNTER", "ARM_SPE_CONTEXT",
             "ARM_SPE_OP_TYPE", "ARM_SPE_EVENTS", "ARM_SPE_DATA_SOURCE"}
UnknownType == "ARM_SPE_UNKNOWN"

SPE_ADDR_PKT_HDR_INDEX_INS == 0
SPE_ADDR_PKT_HDR_INDEX_BRANCH == 1
SPE_ADDR_PKT_HDR_INDEX_DATA_VIRT == 2
SPE_ADDR_PKT_HDR_INDEX_DATA_PHYS == 3
SPE_ADDR_PKT_HDR_INDEX_PREV_BRANCH == 4
SPE_ADDR_PKT_EL1 == 1
SPE_ADDR_PKT_EL2 == 2
SPE_ADDR_PKT_ADDR_BYTE7_SHIFT == 56
SPE_CNT_PKT_HDR_INDEX_TOTAL_LAT == 0
SPE_OP_PKT_HDR_CLASS_OTHER == 0
SPE_OP_PKT_HDR_CLASS_LD_ST_ATOMIC == 1
SPE_OP_PKT_HDR_CLASS_BR_ERET == 2
EBADMSG == 74

SPE_ADDR_PKT_GET_NS(v) == IF 63 \in v THEN 1 ELSE 0
SPE_ADDR_PKT_GET_EL(v) ==
    (IF 62 \in v THEN 2 ELSE 0) + (IF 61 \in v THEN 1 ELSE 0)
SPE_ADDR_PKT_ADDR_GET_BYTES_0_6(v) == v \cap (0..55)
\* bit i of the result is bit 48 + i of v
SPE_ADDR_PKT_ADDR_GET_BYTE_6(v) == {b - 48 : b \in v \cap (48..55)}
\* 0xffULL << shift
Byte7(shift) == shift..(shift + 7)

SPE_OP_PKT_ST == 0
SPE_OP_PKT_COND == 0
SPE_OP_PKT_INDIRECT_BRANCH == 1
SPE_OP_PKT_GCS == 2
SPE_OP_PKT_IS_LDST_SVE(v) == 3 \in v /\ 1 \notin v
SPE_OP_PKT_IS_OTHER_SVE_OP(v) == 3 \in v /\ 7 \notin v /\ 0 \notin v
\* the call/return field, bits 4:3
OpPktCr(v) == (IF 4 \in v THEN 2 ELSE 0) + (IF 3 \in v THEN 1 ELSE 0)
SPE_OP_PKT_CR_BL(v) == OpPktCr(v) = 1
SPE_OP_PKT_CR_RET(v) == OpPktCr(v) = 2
SPE_OP_PKT_CR_NON_BL_RET(v) == OpPktCr(v) = 3

\* Events payload bit -> sample type flag
EventsTable ==
    { <<3, "ARM_SPE_L1D_MISS">>, <<2, "ARM_SPE_L1D_ACCESS">>,
      <<5, "ARM_SPE_TLB_MISS">>, <<4, "ARM_SPE_TLB_ACCESS">>,
      <<9, "ARM_SPE_LLC_MISS">>, <<8, "ARM_SPE_LLC_ACCESS">>,
      <<10, "ARM_SPE_REMOTE_ACCESS">>, <<7, "ARM_SPE_BRANCH_MISS">>,
      <<6, "ARM_SPE_BRANCH_NOT_TAKEN">>, <<16, "ARM_SPE_IN_TXN">>,
      <<17, "ARM_SPE_SVE_PARTIAL_PRED">>, <<18, "ARM_SPE_SVE_EMPTY_PRED">> }

\* ----------------------------------------------------- arm_spe_calc_ip
\* The branch of arm_spe_calc_ip for instruction and branch target addresses.
TargetIp(payload) ==
    LET ns == SPE_ADDR_PKT_GET_NS(payload)
        el == SPE_ADDR_PKT_GET_EL(payload)
        clean == SPE_ADDR_PKT_ADDR_GET_BYTES_0_6(payload)
    IN  IF ns # 0 /\ (el = SPE_ADDR_PKT_EL1 \/ el = SPE_ADDR_PKT_EL2)
        THEN clean \cup Byte7(SPE_ADDR_PKT_ADDR_BYTE7_SHIFT)
        ELSE clean

\* The branch of arm_spe_calc_ip for data virtual addresses.
DataVirtIp(payload) ==
    LET clean == SPE_ADDR_PKT_ADDR_GET_BYTES_0_6(payload)
        val == SPE_ADDR_PKT_ADDR_GET_BYTE_6(clean)
    IN  IF {4, 5, 6, 7} \subseteq val
        THEN clean \cup Byte7(SPE_ADDR_PKT_ADDR_BYTE7_SHIFT)
        ELSE clean

\* The data physical address returned with its top byte left in place.
arm_spe_calc_ip_PhysRaw(index, payload) ==
    IF index \in {SPE_ADDR_PKT_HDR_INDEX_INS, SPE_ADDR_PKT_HDR_INDEX_BRANCH,
                  SPE_ADDR_PKT_HDR_INDEX_PREV_BRANCH} THEN TargetIp(payload)
    ELSE IF index = SPE_ADDR_PKT_HDR_INDEX_DATA_VIRT THEN DataVirtIp(payload)
    ELSE payload

\* The kernel fill for EL1 alone, EL2 forgotten.
arm_spe_calc_ip_El1Only(index, payload) ==
    IF index \in {SPE_ADDR_PKT_HDR_INDEX_INS, SPE_ADDR_PKT_HDR_INDEX_BRANCH,
                  SPE_ADDR_PKT_HDR_INDEX_PREV_BRANCH}
    THEN IF SPE_ADDR_PKT_GET_NS(payload) # 0
            /\ SPE_ADDR_PKT_GET_EL(payload) = SPE_ADDR_PKT_EL1
         THEN TargetIp(payload)
         ELSE SPE_ADDR_PKT_ADDR_GET_BYTES_0_6(payload)
    ELSE IF index = SPE_ADDR_PKT_HDR_INDEX_DATA_VIRT THEN DataVirtIp(payload)
    ELSE IF index = SPE_ADDR_PKT_HDR_INDEX_DATA_PHYS
    THEN SPE_ADDR_PKT_ADDR_GET_BYTES_0_6(payload)
    ELSE payload

\* "(val & 0xf0)" tested for non-zero where the code compares it with 0xf0.
arm_spe_calc_ip_VirtAnyBit(index, payload) ==
    IF index \in {SPE_ADDR_PKT_HDR_INDEX_INS, SPE_ADDR_PKT_HDR_INDEX_BRANCH,
                  SPE_ADDR_PKT_HDR_INDEX_PREV_BRANCH} THEN TargetIp(payload)
    ELSE IF index = SPE_ADDR_PKT_HDR_INDEX_DATA_VIRT
    THEN IF payload \cap (52..55) # {}
         THEN SPE_ADDR_PKT_ADDR_GET_BYTES_0_6(payload)
              \cup Byte7(SPE_ADDR_PKT_ADDR_BYTE7_SHIFT)
         ELSE SPE_ADDR_PKT_ADDR_GET_BYTES_0_6(payload)
    ELSE IF index = SPE_ADDR_PKT_HDR_INDEX_DATA_PHYS
    THEN SPE_ADDR_PKT_ADDR_GET_BYTES_0_6(payload)
    ELSE payload

arm_spe_calc_ip(index, payload) ==
    IF index \in {SPE_ADDR_PKT_HDR_INDEX_INS, SPE_ADDR_PKT_HDR_INDEX_BRANCH,
                  SPE_ADDR_PKT_HDR_INDEX_PREV_BRANCH}
    THEN TargetIp(payload)
    ELSE IF index = SPE_ADDR_PKT_HDR_INDEX_DATA_VIRT
    THEN DataVirtIp(payload)
    ELSE IF index = SPE_ADDR_PKT_HDR_INDEX_DATA_PHYS
    THEN SPE_ADDR_PKT_ADDR_GET_BYTES_0_6(payload)
    ELSE payload

SupportedAddrIndex ==
    {SPE_ADDR_PKT_HDR_INDEX_INS, SPE_ADDR_PKT_HDR_INDEX_BRANCH,
     SPE_ADDR_PKT_HDR_INDEX_PREV_BRANCH, SPE_ADDR_PKT_HDR_INDEX_DATA_VIRT,
     SPE_ADDR_PKT_HDR_INDEX_DATA_PHYS}

\* The function-local static seen_idx after a call with this index.
calc_ip_seen(index, seen) ==
    IF index \in SupportedAddrIndex THEN seen ELSE seen \cup {index}

\* pr_warning called for an unsupported index whatever seen_idx holds.
calc_ip_warns_Always(index, seen) ==
    IF index \notin SupportedAddrIndex THEN <<index>> ELSE << >>

\* The indexes pr_warning is called with by a call of arm_spe_calc_ip: the
\* index itself when it is unsupported and its bit of seen_idx is clear.
calc_ip_warns(index, seen) ==
    IF index \notin SupportedAddrIndex /\ index \notin seen THEN <<index>> ELSE << >>

\* --------------------------------------------------------------- the record
\* The memset alone, context_id left at 0.
ResetRecord_NoSentinel ==
    [timestamp |-> {}, from_ip |-> {}, to_ip |-> {}, virt_addr |-> {},
     phys_addr |-> {}, prev_br_tgt |-> {}, context_id |-> {}, latency |-> {},
     op |-> {}, type |-> {}, source |-> {}]

\* memset(&decoder->record, 0, ...); decoder->record.context_id = (u64)-1;
ResetRecord ==
    [timestamp |-> Zero64, from_ip |-> Zero64, to_ip |-> Zero64,
     virt_addr |-> Zero64, phys_addr |-> Zero64, prev_br_tgt |-> Zero64,
     context_id |-> AllOnes64, latency |-> Zero64, op |-> {}, type |-> {},
     source |-> Zero64]

\* zalloc() of the decoder: the record before the first decode call
ZeroRecord == [ResetRecord EXCEPT !.context_id = Zero64]

\* The previous branch target stored where the branch target goes.
ApplyAddress_PrevIntoBranch(rec, idx, payload) ==
    LET ip == arm_spe_calc_ip(idx, payload)
    IN  IF idx = SPE_ADDR_PKT_HDR_INDEX_INS THEN [rec EXCEPT !.from_ip = ip]
        ELSE IF idx \in {SPE_ADDR_PKT_HDR_INDEX_BRANCH, SPE_ADDR_PKT_HDR_INDEX_PREV_BRANCH}
        THEN [rec EXCEPT !.to_ip = ip]
        ELSE IF idx = SPE_ADDR_PKT_HDR_INDEX_DATA_VIRT THEN [rec EXCEPT !.virt_addr = ip]
        ELSE IF idx = SPE_ADDR_PKT_HDR_INDEX_DATA_PHYS THEN [rec EXCEPT !.phys_addr = ip]
        ELSE rec

\* case ARM_SPE_ADDRESS
ApplyAddress(rec, idx, payload) ==
    LET ip == arm_spe_calc_ip(idx, payload)
    IN  IF idx = SPE_ADDR_PKT_HDR_INDEX_INS THEN [rec EXCEPT !.from_ip = ip]
        ELSE IF idx = SPE_ADDR_PKT_HDR_INDEX_BRANCH THEN [rec EXCEPT !.to_ip = ip]
        ELSE IF idx = SPE_ADDR_PKT_HDR_INDEX_DATA_VIRT THEN [rec EXCEPT !.virt_addr = ip]
        ELSE IF idx = SPE_ADDR_PKT_HDR_INDEX_DATA_PHYS THEN [rec EXCEPT !.phys_addr = ip]
        ELSE IF idx = SPE_ADDR_PKT_HDR_INDEX_PREV_BRANCH THEN [rec EXCEPT !.prev_br_tgt = ip]
        ELSE rec

KnownOpClass ==
    {SPE_OP_PKT_HDR_CLASS_LD_ST_ATOMIC, SPE_OP_PKT_HDR_CLASS_OTHER,
     SPE_OP_PKT_HDR_CLASS_BR_ERET}

\* case ARM_SPE_OP_TYPE: the flags one packet of a known class contributes
OpTypeBits(idx, payload) ==
    IF idx = SPE_OP_PKT_HDR_CLASS_LD_ST_ATOMIC
    THEN {"ARM_SPE_OP_LDST"}
         \cup (IF SPE_OP_PKT_ST \in payload THEN {"ARM_SPE_OP_ST"} ELSE {"ARM_SPE_OP_LD"})
         \cup (IF SPE_OP_PKT_IS_LDST_SVE(payload) THEN {"ARM_SPE_OP_SVE_LDST"} ELSE {})
    ELSE IF idx = SPE_OP_PKT_HDR_CLASS_OTHER
    THEN {"ARM_SPE_OP_OTHER"}
         \cup (IF SPE_OP_PKT_IS_OTHER_SVE_OP(payload) THEN {"ARM_SPE_OP_SVE_OTHER"} ELSE {})
    ELSE IF idx = SPE_OP_PKT_HDR_CLASS_BR_ERET
    THEN {"ARM_SPE_OP_BRANCH_ERET"}
         \cup (IF SPE_OP_PKT_COND \in payload THEN {"ARM_SPE_OP_BR_COND"} ELSE {})
         \cup (IF SPE_OP_PKT_INDIRECT_BRANCH \in payload THEN {"ARM_SPE_OP_BR_INDIRECT"} ELSE {})
         \cup (IF SPE_OP_PKT_GCS \in payload THEN {"ARM_SPE_OP_BR_GCS"} ELSE {})
         \cup (IF SPE_OP_PKT_CR_BL(payload) THEN {"ARM_SPE_OP_BR_CR_BL"} ELSE {})
         \cup (IF SPE_OP_PKT_CR_RET(payload) THEN {"ARM_SPE_OP_BR_CR_RET"} ELSE {})
         \cup (IF SPE_OP_PKT_CR_NON_BL_RET(payload) THEN {"ARM_SPE_OP_BR_CR_NON_BL_RET"} ELSE {})
    ELSE {}

\* "=" where the code has "|=".
ApplyOpType_Assign(rec, idx, payload) ==
    [rec EXCEPT !.op = OpTypeBits(idx, payload)]

\* decoder->record.op |= ...
ApplyOpType(rec, idx, payload) ==
    [rec EXCEPT !.op = rec.op \cup OpTypeBits(idx, payload)]

\* case ARM_SPE_EVENTS: the flags one packet contributes
EventsBits(payload) == {e[2] : e \in {x \in EventsTable : x[1] \in payload}}

\* decoder->record.type |= ...
ApplyEvents(rec, payload) ==
    [rec EXCEPT !.type = rec.type \cup EventsBits(payload)]

\* The packet types whose case ends the record with "return 1".
RecordEnd == {"ARM_SPE_TIMESTAMP", "ARM_SPE_END"}

\* "case ARM_SPE_BAD" left out of the switch, so that it takes the default.
IsViolation_BadIsError(pkt) ==
    \/ pkt.type = "ARM_SPE_OP_TYPE" /\ pkt.index \notin {0, 1, 2}
    \/ pkt.type \notin (PktTypes \ {"ARM_SPE_BAD"})

\* Whether the switch returns -1 on this packet.
IsViolation(pkt) ==
    \/ pkt.type = "ARM_SPE_OP_TYPE" /\ pkt.index \notin KnownOpClass
    \/ pkt.type \notin PktTypes

\* The record after the switch of arm_spe_read_record has run on one packet.
SwitchRecord(rec, pkt) ==
    CASE pkt.type = "ARM_SPE_TIMESTAMP" -> [rec EXCEPT !.timestamp = pkt.payload]
      [] pkt.type = "ARM_SPE_END" -> rec
      [] pkt.type = "ARM_SPE_ADDRESS" -> ApplyAddress(rec, pkt.index, pkt.payload)
      [] pkt.type = "ARM_SPE_COUNTER" ->
            IF pkt.index = SPE_CNT_PKT_HDR_INDEX_TOTAL_LAT
            THEN [rec EXCEPT !.latency = pkt.payload] ELSE rec
      [] pkt.type = "ARM_SPE_CONTEXT" -> [rec EXCEPT !.context_id = pkt.payload]
      [] pkt.type = "ARM_SPE_OP_TYPE" ->
            IF pkt.index \in KnownOpClass
            THEN ApplyOpType(rec, pkt.index, pkt.payload) ELSE rec
      [] pkt.type = "ARM_SPE_EVENTS" -> ApplyEvents(rec, pkt.payload)
      [] pkt.type = "ARM_SPE_DATA_SOURCE" -> [rec EXCEPT !.source = pkt.payload]
      [] OTHER -> rec

\* The switch with "case ARM_SPE_END" falling out of it by "break".
SwitchReturn_EndBreaks(pkt) ==
    IF pkt.type = "ARM_SPE_TIMESTAMP" THEN [returns |-> TRUE, val |-> 1]
    ELSE IF IsViolation(pkt) THEN [returns |-> TRUE, val |-> -1]
    ELSE [returns |-> FALSE, val |-> 0]

\* What the switch does with control: "return" with a value, or "break".
SwitchReturn(pkt) ==
    IF pkt.type \in RecordEnd THEN [returns |-> TRUE, val |-> 1]
    ELSE IF IsViolation(pkt) THEN [returns |-> TRUE, val |-> -1]
    ELSE [returns |-> FALSE, val |-> 0]

\* ------------------------------------------------- the Packet Decoder's input
\* One cell is one byte of a span, seen as the header byte of the packet that
\* starts there: the packet it decodes to and the number of bytes the packet
\* takes (header and payload bytes; 0 for a byte that starts no packet).
Cell(t, i, p, n) == [type |-> t, index |-> i, payload |-> p, size |-> n]

PadCell == Cell("ARM_SPE_PAD", 0, Zero64, 1)
EndCell == Cell("ARM_SPE_END", 0, Zero64, 1)
TsCell == Cell("ARM_SPE_TIMESTAMP", 0, {0, 5}, 1)
JunkCell == Cell("ARM_SPE_BAD", 0, Zero64, 0)
CtxCell == Cell("ARM_SPE_CONTEXT", 0, {2}, 1)

Cells ==
    { PadCell, EndCell, TsCell, JunkCell, CtxCell,
      Cell("ARM_SPE_ADDRESS", SPE_ADDR_PKT_HDR_INDEX_INS, {63, 61, 4}, 2),
      Cell("ARM_SPE_ADDRESS", 5, {60}, 1),
      Cell("ARM_SPE_ADDRESS", 6, {57, 3}, 1),
      Cell("ARM_SPE_COUNTER", SPE_CNT_PKT_HDR_INDEX_TOTAL_LAT, {1}, 1),
      Cell("ARM_SPE_OP_TYPE", SPE_OP_PKT_HDR_CLASS_LD_ST_ATOMIC, {0}, 1),
      Cell("ARM_SPE_OP_TYPE", SPE_OP_PKT_HDR_CLASS_BR_ERET, {1}, 1),
      Cell("ARM_SPE_OP_TYPE", 3, {0}, 1),
      Cell("ARM_SPE_EVENTS", 0, {2, 3}, 1),
      Cell("ARM_SPE_EVENTS", 0, {7}, 1),
      Cell("ARM_SPE_DATA_SOURCE", 0, {3}, 1),
      Cell("ARM_SPE_BAD", 0, Zero64, 1),
      Cell(UnknownType, 0, Zero64, 1) }

PacketOf(c) == [type |-> c.type, index |-> c.index, payload |-> c.payload]

\* struct arm_spe_pkt of a zalloc()ed decoder
NoPacket == [type |-> "ARM_SPE_BAD", index |-> 0, payload |-> Zero64]

\* arm_spe_get_packet(buf, len, &packet) on a cursor with a cell at buf: the
\* consumed length (<= 0: no valid packet at this position; a packet that does
\* not fit in len is one of these) and the packet.
arm_spe_get_packet(b, l) ==
    LET c == Head(b)
    IN  IF c.size = 0 THEN [ret |-> 0, packet |-> NoPacket]
        ELSE IF ~LenAtLeast(l, c.size) THEN [ret |-> -1, packet |-> NoPacket]
        ELSE [ret |-> c.size, packet |-> PacketOf(c)]

\* buf + n, for the cells the model holds
Drop(b, n) == IF n >= Len(b) THEN << >> ELSE SubSeq(b, n + 1, Len(b))

\* ------------------------------------------------------------------ the Source
RECURSIVE SeqsUpTo(_, _)
SeqsUpTo(S, n) ==
    IF n = 0 THEN { << >> }
    ELSE LET shorter == SeqsUpTo(S, n - 1)
         IN  shorter \cup { Append(q, x) : q \in {r \in shorter : Len(r) = n - 1}, x \in S }

Min(a, b) == IF a < b THEN a ELSE b

\* The ordinary spans of at most n cells: the length is the number of cells.
Spans(n) ==
    { [cells |-> q, len |-> LenOf(Len(q))] :
        q \in SeqsUpTo(Cells, Min(n, MaxSpanCells)) \ { << >> } }

\* Spans of 2^31 and of 2^32 bytes: the cells the model holds and then zero
\* bytes (Pad) up to the length.  They count as one cell more than they hold.
GiantSpans(n) ==
    { [cells |-> q, len |-> [hi |-> h, lo |-> 0]] :
        q \in { r \in { << >>, <<TsCell>> } : Len(r) < n }, h \in {1, 2} }

\* The negative codes get_trace may return.
FailCodes == {-5, -1}

EndAnswer == [ret |-> 0, cells |-> << >>, len |-> LenOf(0)]

\* What one call of decoder->get_trace(&buffer, decoder->data) may answer in
\* Source state s: a failure code, the next span, or length 0; once it has
\* answered length 0 it answers length 0.
SourceAnswers(s) ==
    IF s.eof THEN { EndAnswer }
    ELSE { [ret |-> c, cells |-> << >>, len |-> LenOf(0)] : c \in FailCodes }
         \cup { EndAnswer }
         \cup { [ret |-> 0, cells |-> sp.cells, len |-> sp.len] :
                  sp \in Spans(s.left) \cup GiantSpans(s.left) }

SourceAfter(s, a) ==
    IF a.ret < 0 THEN s
    ELSE IF LenIsZero(a.len) THEN [s EXCEPT !.eof = TRUE]
    ELSE [s EXCEPT !.left = s.left - (Len(a.cells) + (IF a.len.hi > 0 THEN 1 ELSE 0))]

\* Every failure of the Source reported as -1.
arm_spe_get_data_MinusOne(a, b, l) ==
    IF a.ret < 0 THEN [ret |-> -1, buf |-> b, len |-> l]
    ELSE [ret |-> ToInt(a.len), buf |-> a.cells, len |-> a.len]

\* arm_spe_get_data with the Source answering a, on cursor (b, l): the value
\* it returns and the cursor it leaves.
arm_spe_get_data(a, b, l) ==
    IF a.ret < 0 THEN [ret |-> a.ret, buf |-> b, len |-> l]
    ELSE [ret |-> ToInt(a.len), buf |-> a.cells, len |-> a.len]

\* ------------------------------------------------------------------ the state
VARIABLES
    buf,        \* decoder->buf: the cells from the cursor on
    len,        \* decoder->len
    packet,     \* decoder->packet
    record,     \* decoder->record
    seen_idx,   \* the static seen_idx of arm_spe_calc_ip
    src,        \* the Source: cells left to give, and whether it has ended
    pc,         \* where the decode call stands: "idle" between calls
    ret,        \* what the latest completed decode call returned
    exit,       \* the return statement that ended it
    ncalls,     \* completed decode calls, counted up to 2
    prevExit,   \* exit of the call before the latest
    eosBefore,  \* a call before the latest returned 0
    consumed,   \* the packets the current (or latest) call has dispatched
    fetched,    \* the packet get_next_packet decoded last in this call, Pad too
    pull,       \* the Source's answer to the latest pull of this call
    startBuf,   \* the cursor at the entry of the current (or latest) call
    startLen,
    entryRecord, \* decoder->record at that entry, before the reset
    onlyPad,    \* every byte the instance has consumed so far was a Pad
    ip,         \* the local ip of arm_spe_read_record
    warned,     \* the indexes pr_warning was called with, in order
    span,       \* the Source's latest answer that became the cursor
    npulls,     \* the pulls of the current (or latest) call
    unit,       \* one packet put through the switch on its own
    two         \* two decoder instances dispatching Address packets

vars == <<buf, len, packet, record, seen_idx, src, pc, ret, exit, ncalls,
          prevExit, eosBefore, consumed, fetched, pull, startBuf, startLen,
          entryRecord, onlyPad, ip, warned, span, npulls, unit, two>>

\* What the decode calls of the one instance leave alone.
aside == <<unit, two>>

UnitIdle == [phase |-> "off"]
TwoIdle == [phase |-> "off"]

NoPull == [ret |-> 0, cells |-> << >>, len |-> LenOf(0), asked |-> FALSE]

\* The decoder after arm_spe_decoder_new, the Source untouched.
InitDecoder ==
    /\ buf = << >>
    /\ len = LenOf(0)
    /\ packet = NoPacket
    /\ record = ZeroRecord
    /\ seen_idx = {}
    /\ src = [left |-> MaxStream, eof |-> FALSE]
    /\ pc = "idle"
    /\ ret = 0
    /\ exit = "none"
    /\ ncalls = 0
    /\ prevExit = "none"
    /\ eosBefore = FALSE
    /\ consumed = << >>
    /\ fetched = << >>
    /\ pull = NoPull
    /\ startBuf = << >>
    /\ startLen = LenOf(0)
    /\ entryRecord = ZeroRecord
    /\ onlyPad = TRUE
    /\ ip = Zero64
    /\ warned = << >>
    /\ span = [cells |-> << >>, len |-> LenOf(0)]
    /\ npulls = 0

Init ==
    /\ InitDecoder
    /\ unit = UnitIdle
    /\ two = TwoIdle

\* The decode call returns v through the return statement e.
Return(v, e) ==
    /\ pc' = "idle"
    /\ ret' = v
    /\ exit' = e
    /\ ncalls' = IF ncalls < 2 THEN ncalls + 1 ELSE 2
    /\ prevExit' = exit
    /\ eosBefore' = (eosBefore \/ (ncalls > 0 /\ ret = 0))

Continue(p) ==
    /\ pc' = p
    /\ UNCHANGED <<ret, exit, ncalls, prevExit, eosBefore>>

\* arm_spe_decode -> arm_spe_read_record: the record is reset and the loop
\* entered.
Call ==
    /\ pc = "idle"
    /\ record' = ResetRecord
    /\ consumed' = << >>
    /\ fetched' = << >>
    /\ pull' = NoPull
    /\ startBuf' = buf
    /\ startLen' = len
    /\ entryRecord' = record
    /\ npulls' = 0
    /\ Continue("fetch")
    /\ UNCHANGED <<buf, len, packet, seen_idx, src, onlyPad, ip, warned, span, aside>>

\* The test left out: a pull before every packet.
NeedData_Always(l) == TRUE

\* "if (!decoder->len)": whether arm_spe_get_next_packet pulls before it
\* decodes.
NeedData(l) == LenIsZero(l)

\* arm_spe_get_next_packet with no bytes left: arm_spe_get_data pulls, and
\* "if (ret <= 0) return ret" goes through arm_spe_read_record's
\* "if (err <= 0) return err".
GetData ==
    /\ pc = "fetch"
    /\ NeedData(len)
    /\ \E a \in SourceAnswers(src) :
          LET d == arm_spe_get_data(a, buf, len)
          IN  /\ src' = SourceAfter(src, a)
              /\ pull' = [ret |-> a.ret, cells |-> a.cells, len |-> a.len, asked |-> TRUE]
              /\ buf' = d.buf
              /\ len' = d.len
              /\ span' = IF a.ret < 0 THEN span ELSE [cells |-> a.cells, len |-> a.len]
              /\ IF d.ret <= 0 THEN Return(d.ret, "data") ELSE Continue("packet")
    /\ npulls' = npulls + 1
    /\ UNCHANGED <<packet, record, seen_idx, consumed, fetched, startBuf, startLen, entryRecord, onlyPad, ip, warned, aside>>

\* The cursor moved by the length the Packet Decoder reported, taken as 0.
MalformedSkip_ByRet(b, l) == [buf |-> b, len |-> l]

\* "decoder->len -= 1" without "decoder->buf += 1".
MalformedSkip_LenOnly(b, l) == [buf |-> b, len |-> LenSub(l, 1)]

\* "Move forward for 1 byte": the cursor after a failed arm_spe_get_packet.
MalformedSkip(b, l) == [buf |-> Drop(b, 1), len |-> LenSub(l, 1)]

\* The loop left after every decoded packet, Pad or not.
AfterPacket_NoPadLoop(type) == "dispatch"

\* "while (decoder->packet.type == ARM_SPE_PAD)": where the loop goes after
\* a packet of this type was decoded.
AfterPacket(type) == IF type = "ARM_SPE_PAD" THEN "fetch" ELSE "dispatch"

AtPacket == pc = "packet" \/ (pc = "fetch" /\ ~NeedData(len))

\* arm_spe_get_next_packet: one arm_spe_get_packet call on the cursor and what
\* follows it in the loop body.
GetPacket ==
    /\ AtPacket
    /\ buf # << >>
    /\ LET g == arm_spe_get_packet(buf, len)
       IN  IF g.ret <= 0
           THEN /\ buf' = MalformedSkip(buf, len).buf
                /\ len' = MalformedSkip(buf, len).len
                /\ onlyPad' = FALSE
                /\ Return(-EBADMSG, "badmsg")
                /\ UNCHANGED <<packet, fetched>>
           ELSE /\ buf' = Drop(buf, g.ret)
                /\ len' = LenSub(len, g.ret)
                /\ packet' = g.packet
                /\ fetched' = <<g.packet>>
                /\ onlyPad' = (onlyPad /\ g.packet.type = "ARM_SPE_PAD")
                /\ Continue(AfterPacket(g.packet.type))
    /\ UNCHANGED <<record, seen_idx, src, consumed, pull, startBuf, startLen, entryRecord, ip, warned, span, npulls, aside>>

\* The same loop over the zero bytes that end an oversized span: every one of
\* them decodes to a Pad, so the loop runs until the span is used up.
PadRun ==
    /\ AtPacket
    /\ buf = << >>
    /\ len' = LenOf(0)
    /\ packet' = PacketOf(PadCell)
    /\ fetched' = <<PacketOf(PadCell)>>
    /\ Continue("fetch")
    /\ UNCHANGED <<buf, record, seen_idx, src, consumed, pull, startBuf, startLen, entryRecord, onlyPad, ip, warned, span, npulls, aside>>

\* The switch of arm_spe_read_record on the packet just retrieved.
Dispatch ==
    /\ pc = "dispatch"
    /\ record' = SwitchRecord(record, packet)
    /\ seen_idx' = IF packet.type = "ARM_SPE_ADDRESS"
                   THEN calc_ip_seen(packet.index, seen_idx) ELSE seen_idx
    /\ ip' = IF packet.type = "ARM_SPE_ADDRESS"
             THEN arm_spe_calc_ip(packet.index, packet.payload) ELSE ip
    /\ warned' = IF packet.type = "ARM_SPE_ADDRESS"
                 THEN warned \o calc_ip_warns(packet.index, seen_idx) ELSE warned
    /\ consumed' = Append(consumed, packet)
    /\ LET c == SwitchReturn(packet)
       IN  IF c.returns
           THEN Return(c.val, IF c.val = 1 THEN "record" ELSE "violation")
           ELSE Continue("fetch")
    /\ UNCHANGED <<buf, len, packet, src, fetched, pull, startBuf, startLen, entryRecord, onlyPad, span, npulls, aside>>

Next == Call \/ GetData \/ GetPacket \/ PadRun \/ Dispatch

Spec == Init /\ [][Next]_vars

\* A decode call is one synchronous thread of control: once called it takes
\* its next step, and the Source's pull comes back with an answer.
InCall == GetData \/ GetPacket \/ PadRun \/ Dispatch

FairSpec == Spec /\ WF_vars(InCall)

\* ------------------------------------------- one packet through the switch
\* The switch of arm_spe_read_record and arm_spe_calc_ip are functions of the
\* packet and the record: here they are applied to one packet and one record
\* drawn from a wide set, past what the streams above hold.

\* 64-bit payloads: NS, the exception level and bit 56 of the top byte, every
\* value of bits 55:52, and a few values of the lower bits.
UnitPayloads ==
    { top \cup nib \cup low :
        top \in SUBSET {63, 62, 61, 56},
        nib \in SUBSET {55, 54, 53, 52},
        low \in {{}, {0}, {1, 3}, {2, 7, 47}} }

UnitPackets ==
    [type : PktTypes \cup {UnknownType}, index : 0..MaxAddrIndex, payload : UnitPayloads]

\* A record in the middle of its assembly, every field written already.
BusyRecord ==
    [timestamp |-> {0}, from_ip |-> {1}, to_ip |-> {2}, virt_addr |-> {3},
     phys_addr |-> {4}, prev_br_tgt |-> {5}, context_id |-> {6}, latency |-> {7},
     op |-> {"ARM_SPE_OP_OTHER"}, type |-> {"ARM_SPE_TLB_MISS"}, source |-> {8}]

UnitRecords == {ResetRecord, BusyRecord}

InitUnit ==
    /\ InitDecoder
    /\ two = TwoIdle
    /\ \E p \in UnitPackets, r \in UnitRecords :
          unit = [phase |-> "in", pkt |-> p, rec |-> r, out |-> r, ip |-> Zero64,
                  ctl |-> [returns |-> FALSE, val |-> 0]]

\* One pass of the switch of arm_spe_read_record on unit.pkt and unit.rec.
UnitSwitch ==
    /\ unit.phase = "in"
    /\ unit' = [unit EXCEPT
                  !.phase = "out",
                  !.out = SwitchRecord(unit.rec, unit.pkt),
                  !.ip = IF unit.pkt.type = "ARM_SPE_ADDRESS"
                         THEN arm_spe_calc_ip(unit.pkt.index, unit.pkt.payload)
                         ELSE unit.ip,
                  !.ctl = SwitchReturn(unit.pkt)]
    /\ UNCHANGED <<buf, len, packet, record, seen_idx, src, pc, ret, exit, ncalls,
                   prevExit, eosBefore, consumed, fetched, pull, startBuf, startLen,
                   entryRecord, onlyPad, ip, warned, span, npulls, two>>

NextUnit == UnitSwitch

SpecUnit == InitUnit /\ [][NextUnit]_vars

\* ------------------------------------------------- two decoder instances
\* Two instances made by arm_spe_decoder_new, each driven by its own thread.
\* Every field of struct arm_spe_decoder is per instance; the one object both
\* reach is the function-local static seen_idx of arm_spe_calc_ip, so the
\* instances are followed through their Address packets only. The threads'
\* accesses to seen_idx are unsynchronised: the test and the "|=" are separate
\* steps, and the "|=" may store onto the value the test loaded.
Instances == {"A", "B"}

TwoIndexes == {SPE_ADDR_PKT_HDR_INDEX_INS} \cup (5..MaxAddrIndex)

TwoStreams == UNION {[1..n -> TwoIndexes] : n \in 0..MaxTwoStream}

NewInstance(stream) ==
    [todo |-> stream, done |-> << >>, warned |-> << >>, at |-> "idle", loaded |-> {}]

InitTwo ==
    /\ InitDecoder
    /\ unit = UnitIdle
    /\ \E sa \in TwoStreams, sb \in TwoStreams :
          two = [phase |-> "on", seen_idx |-> {},
                 inst |-> [x \in Instances |->
                             NewInstance(IF x = "A" THEN sa ELSE sb)]]

TwoUnchanged ==
    UNCHANGED <<buf, len, packet, record, seen_idx, src, pc, ret, exit, ncalls,
                prevExit, eosBefore, consumed, fetched, pull, startBuf, startLen,
                entryRecord, onlyPad, ip, warned, span, npulls, unit>>

\* Instance x enters arm_spe_calc_ip with its next Address packet; for an
\* unsupported index it evaluates "!(seen_idx & BIT(index))".
TwoTest(x) ==
    /\ two.phase = "on"
    /\ two.inst[x].at = "idle"
    /\ two.inst[x].todo # << >>
    /\ LET me == two.inst[x]
           index == Head(me.todo)
       IN  IF index \notin SupportedAddrIndex /\ index \notin two.seen_idx
           THEN two' = [two EXCEPT !.inst[x].at = "set",
                                   !.inst[x].loaded = two.seen_idx]
           ELSE two' = [two EXCEPT !.inst[x].todo = Tail(me.todo),
                                   !.inst[x].done = Append(me.done, index)]
    /\ TwoUnchanged

\* "seen_idx |= BIT(index); pr_warning(...)" of instance x.
TwoSet(x) ==
    /\ two.phase = "on"
    /\ two.inst[x].at = "set"
    /\ LET me == two.inst[x]
           index == Head(me.todo)
       IN  \E old \in {two.seen_idx, me.loaded} :
              two' = [two EXCEPT !.seen_idx = old \cup {index},
                                 !.inst[x].at = "idle",
                                 !.inst[x].warned = Append(me.warned, index),
                                 !.inst[x].todo = Tail(me.todo),
                                 !.inst[x].done = Append(me.done, index)]
    /\ TwoUnchanged

NextTwo == \E x \in Instances : TwoTest(x) \/ TwoSet(x)

SpecTwo == InitTwo /\ [][NextTwo]_vars

\* -------------------------------------------------------------- properties
\* The record of a decode call that has consumed nothing, written out.
Defaults ==
    [timestamp |-> {}, from_ip |-> {}, to_ip |-> {}, virt_addr |-> {},
     phys_addr |-> {}, prev_br_tgt |-> {}, context_id |-> 0..63,
     latency |-> {}, op |-> {}, type |-> {}, source |-> {}]

\* A decode call has completed and none is running.
Returned == pc = "idle" /\ ncalls > 0

\* A decode call is running or has completed.
Started == pc # "idle" \/ ncalls > 0

LastFetched(T) == fetched # << >> /\ fetched[1].type \in T

\* C1: a decode call returns 1 (RecordReady) exactly when the last packet it
\* retrieved is a Timestamp or an End packet; once such a packet is retrieved
\* the call only dispatches it and returns, the cursor untouched; Timestamp
\* stores its payload in record.timestamp and End changes no field.
C1_RecordReadyIffTerminal ==
    /\ [](Returned => (ret = 1 <=> LastFetched({"ARM_SPE_TIMESTAMP", "ARM_SPE_END"})))
    /\ [](LastFetched({"ARM_SPE_TIMESTAMP", "ARM_SPE_END"})
            => pc = "dispatch" \/ (pc = "idle" /\ ret = 1 /\ exit = "record"))
    /\ [][pc = "dispatch" /\ packet.type \in {"ARM_SPE_TIMESTAMP", "ARM_SPE_END"}
            => /\ pc' = "idle" /\ ret' = 1
               /\ buf' = buf /\ len' = len /\ fetched' = fetched
               /\ record' = IF packet.type = "ARM_SPE_TIMESTAMP"
                            THEN [record EXCEPT !.timestamp = packet.payload]
                            ELSE record]_vars

\* A call that folded a packet into the record and then returned it on a
\* Timestamp packet.
C1_Witness ==
    /\ Returned /\ ret = 1 /\ Len(consumed) >= 2
    /\ consumed[Len(consumed)].type = "ARM_SPE_TIMESTAMP"
    /\ record.timestamp = consumed[Len(consumed)].payload
    /\ record.timestamp # {}
    /\ record.context_id # 0..63

\* The Packet Decoder reports no valid packet at the cursor.
NoPacketHere == AtPacket /\ buf # << >> /\ arm_spe_get_packet(buf, len).ret <= 0

ValidTimestampAt(b, l) ==
    /\ b # << >>
    /\ b[1].type = "ARM_SPE_TIMESTAMP"
    /\ b[1].size > 0
    /\ LenAtLeast(l, b[1].size)

\* C2: when arm_spe_get_packet reports a length <= 0 the call moves the cursor
\* on by one byte and returns -EBADMSG (MalformedPacket); the next call starts
\* at that cursor, so when a valid Timestamp packet is there it returns 1 with
\* a record holding that timestamp and nothing else.
C2_MalformedSkipsOneByte ==
    /\ [][NoPacketHere
            => /\ buf' = Drop(buf, 1)
               /\ len' = LenSub(len, 1)
               /\ pc' = "idle" /\ ret' = -74]_vars
    /\ [][pc = "idle" => buf' = buf /\ len' = len]_vars
    /\ [](Returned /\ ncalls >= 2 /\ prevExit = "badmsg"
             /\ ValidTimestampAt(startBuf, startLen)
            => /\ ret = 1
               /\ record = [Defaults EXCEPT !.timestamp = startBuf[1].payload]
               /\ buf = Drop(startBuf, startBuf[1].size))

\* MalformedPacket, then RecordReady with the Timestamp that followed the
\* skipped byte in the same span.
C2_Witness ==
    /\ Returned /\ ncalls >= 2 /\ prevExit = "badmsg"
    /\ ValidTimestampAt(startBuf, startLen)
    /\ ret = 1
    /\ record.timestamp = {0, 5}
    /\ pull.asked = FALSE

\* A Pad packet is decoded at the cursor.
PadHere ==
    /\ AtPacket
    /\ \/ buf = << >>
       \/ /\ arm_spe_get_packet(buf, len).ret > 0
          /\ arm_spe_get_packet(buf, len).packet.type = "ARM_SPE_PAD"

\* C3: a Pad packet never reaches the switch of arm_spe_read_record, changes
\* no record field and does not end the call; as long as every byte consumed
\* was a Pad no call has returned 1, and the call that then pulls length 0
\* returns 0 (EndOfStream).
C3_PadTransparent ==
    /\ [](pc = "dispatch" => packet.type # "ARM_SPE_PAD")
    /\ [][PadHere => record' = record /\ consumed' = consumed /\ pc' = "fetch"]_vars
    /\ [](onlyPad /\ Returned => ret # 1)
    /\ [](onlyPad /\ Returned /\ pull.asked /\ pull.ret = 0 /\ LenIsZero(pull.len)
            => ret = 0 /\ record = Defaults)

\* A call that consumed Pad packets only, pulled length 0 and returned 0.
C3_Witness ==
    /\ Returned /\ onlyPad /\ ret = 0
    /\ fetched # << >> /\ fetched[1].type = "ARM_SPE_PAD"
    /\ pull.asked /\ pull.ret = 0 /\ LenIsZero(pull.len)

\* The record after the switch has run on each packet of pkts in turn.
RECURSIVE FoldRecord(_, _)
FoldRecord(rec, pkts) ==
    IF pkts = << >> THEN rec
    ELSE FoldRecord(SwitchRecord(rec, Head(pkts)), Tail(pkts))

HasType(pkts, t) == \E i \in 1..Len(pkts) : pkts[i].type = t

\* C4: every decode call starts from the record with every field 0 and
\* context_id all-ones, however the call before ended; a record returned with
\* 1 is the fold of the packets of that call alone over that record, and
\* context_id is all-ones as long as the call has consumed no Context packet.
C4_FreshRecordPerCall ==
    /\ [][pc = "idle" => record' = Defaults /\ consumed' = << >>]_vars
    /\ [](Returned /\ ret = 1 => record = FoldRecord(Defaults, consumed))
    /\ [](Started /\ ~HasType(consumed, "ARM_SPE_CONTEXT")
            => record.context_id = 0..63)

\* The call before ended in MalformedPacket or ProtocolViolation with packets
\* folded in; this call returned a record with context_id all-ones.
C4_Witness ==
    /\ Returned /\ ncalls >= 2 /\ prevExit \in {"badmsg", "violation"}
    /\ entryRecord.context_id = {2}
    /\ ret = 1
    /\ consumed # << >> /\ ~HasType(consumed, "ARM_SPE_CONTEXT")
    /\ record.context_id = 0..63
    /\ record.timestamp # {}

KnownOps(pkts) ==
    { i \in 1..Len(pkts) : pkts[i].type = "ARM_SPE_OP_TYPE" /\ pkts[i].index \in {0, 1, 2} }

EventPkts(pkts) == { i \in 1..Len(pkts) : pkts[i].type = "ARM_SPE_EVENTS" }

\* C5: inside one decode call no step removes a flag from record.op or from
\* record.type, and the two hold the union of what the OpType packets (of a
\* known class) and the Events packets of the call contribute.
C5_MasksOnlyGrow ==
    /\ [][pc # "idle" => record.op \subseteq record'.op /\ record.type \subseteq record'.type]_vars
    /\ [](Started => record.op =
            UNION { OpTypeBits(consumed[i].index, consumed[i].payload) : i \in KnownOps(consumed) })
    /\ [](Started => record.type =
            UNION { EventsBits(consumed[i].payload) : i \in EventPkts(consumed) })

\* Two OpType packets of different classes and two Events packets, each pair in
\* one call.
C5_Witness ==
    /\ Cardinality(KnownOps(consumed)) >= 2
    /\ {"ARM_SPE_OP_LDST", "ARM_SPE_OP_ST", "ARM_SPE_OP_BRANCH_ERET", "ARM_SPE_OP_BR_INDIRECT"}
          \subseteq record.op

\* The same for record.type.
C5_WitnessEvents ==
    /\ Cardinality(EventPkts(consumed)) >= 2
    /\ record.type = {"ARM_SPE_L1D_ACCESS", "ARM_SPE_L1D_MISS", "ARM_SPE_BRANCH_MISS"}

\* The packets section 4.1 names as a ProtocolViolation.
Violating(p) ==
    \/ p.type = "ARM_SPE_OP_TYPE" /\ p.index \notin {0, 1, 2}
    \/ p.type \notin {"ARM_SPE_PAD", "ARM_SPE_END", "ARM_SPE_TIMESTAMP", "ARM_SPE_ADDRESS",
                      "ARM_SPE_COUNTER", "ARM_SPE_CONTEXT", "ARM_SPE_OP_TYPE",
                      "ARM_SPE_EVENTS", "ARM_SPE_DATA_SOURCE", "ARM_SPE_BAD"}

\* C6: a decode call leaves through "return -1" of the switch
\* (ProtocolViolation) exactly when the last packet it retrieved is an OpType
\* packet of an unknown class or a packet of an unknown kind; it returns -1
\* on dispatching that packet, with no further packet retrieved and the record
\* as it was.
C6_ProtocolViolationExactly ==
    /\ [](Returned => (exit = "violation" <=> (fetched # << >> /\ Violating(fetched[1]))))
    /\ [](Returned /\ exit = "violation" => ret = -1)
    /\ [](fetched # << >> /\ Violating(fetched[1])
            => pc = "dispatch" \/ (pc = "idle" /\ exit = "violation"))
    /\ [][pc = "dispatch"
            => IF Violating(packet)
               THEN pc' = "idle" /\ ret' = -1 /\ record' = record /\ buf' = buf /\ len' = len
               ELSE ~(pc' = "idle" /\ ret' = -1)]_vars

\* An OpType packet of class 3 ended a call that had folded a packet before.
C6_Witness ==
    /\ Returned /\ exit = "violation" /\ ret = -1
    /\ Len(consumed) >= 2
    /\ consumed[Len(consumed)].type = "ARM_SPE_OP_TYPE"
    /\ consumed[Len(consumed)].index = 3

\* C7: after a decode call that returned anything but 1 and had dispatched
\* packets, decoder->record holds none of what those packets stored.
C7_PartialRecordNotExposed ==
    Returned /\ ret # 1 /\ consumed # << >> => record = Defaults

\* A pull is about to be made or has just been answered with a failure.
PullFailed == pull.asked /\ pull.ret < 0

\* C8: when get_trace returns a negative code the decode call returns that
\* code at once, no packet decoded, buf and len as they were; len is 0 then,
\* which is what makes the next call pull again.
C8_SourceFailureVerbatim ==
    /\ [][pc = "fetch" /\ LenIsZero(len) /\ pull'.asked /\ pull'.ret < 0
            => /\ pc' = "idle" /\ ret' = pull'.ret
               /\ buf' = buf /\ len' = len
               /\ packet' = packet /\ fetched' = fetched /\ record' = record]_vars
    /\ [](Returned /\ PullFailed => ret = pull.ret /\ exit = "data" /\ LenIsZero(len))

\* A call that folded a packet, pulled, and returned the Source's -5.
C8_Witness ==
    /\ Returned /\ PullFailed /\ pull.ret = -5 /\ ret = -5
    /\ consumed # << >>
    /\ LenIsZero(len)

\* C9: a call that ends on the result of a pull which did not fail ends with 0
\* (EndOfStream), and only when the span pulled has length 0: a span of any
\* other length becomes the cursor and is decoded.
C9_NonEmptyPullIsDecoded ==
    Returned /\ exit = "data" /\ pull.ret >= 0 => ret = 0 /\ LenIsZero(pull.len)

\* C10: once a decode call has returned 0 (EndOfStream), every later decode
\* call returns 0.
C10_EndOfStreamIsFinal ==
    Returned /\ eosBefore => ret = 0

\* ------------------------------------------------------- address properties
TopByte(v) == v \cap (56..63)
Low56(v) == v \cap (0..55)

\* The switch has run on an Address packet whose selector is in S.
AddressDone(S) ==
    /\ unit.phase = "out"
    /\ unit.pkt.type = "ARM_SPE_ADDRESS"
    /\ unit.pkt.index \in S

\* C11 as stated: for every selector and every payload the computed address
\* has top byte 0x00 or 0xFF and its bits 55:0 are the payload's bits 55:0.
C11_AllSelectorsCanonical ==
    AddressDone(0..MaxAddrIndex) =>
        /\ TopByte(unit.ip) \in {{}, 56..63}
        /\ Low56(unit.ip) = Low56(unit.pkt.payload)

\* C11, amended: for the five supported selectors and every payload the
\* computed address has top byte 0x00 or 0xFF and its bits 55:0 are the
\* payload's bits 55:0.
C11_SupportedSelectorsCanonical ==
    AddressDone({0, 1, 2, 3, 4}) =>
        /\ TopByte(unit.ip) \in {{}, 56..63}
        /\ Low56(unit.ip) = Low56(unit.pkt.payload)

C11_Witness ==
    /\ AddressDone({0, 1, 2, 3, 4})
    /\ TopByte(unit.pkt.payload) \notin {{}, 56..63}
    /\ Low56(unit.pkt.payload) # {}
    /\ TopByte(unit.ip) = 56..63

\* C12: for the instruction, branch-target and previous-branch-target
\* selectors the address is the payload's low 56 bits with top byte 0xFF
\* exactly when NS is set and the exception level is EL1 or EL2, and top byte 0x00 otherwise; an instruction packet stores that
\* address in from_ip.
C12_TargetAddressFill ==
    AddressDone({0, 1, 4}) =>
        LET p == unit.pkt.payload
            kernel == /\ SPE_ADDR_PKT_GET_NS(p) = 1
                      /\ SPE_ADDR_PKT_GET_EL(p) \in {SPE_ADDR_PKT_EL1, SPE_ADDR_PKT_EL2}
        IN  /\ unit.ip = Low56(p) \cup (IF kernel THEN 56..63 ELSE {})
            /\ unit.pkt.index = 0 => unit.out.from_ip = unit.ip

C12_Witness ==
    /\ AddressDone({0})
    /\ SPE_ADDR_PKT_GET_NS(unit.pkt.payload) = 1
    /\ SPE_ADDR_PKT_GET_EL(unit.pkt.payload) = SPE_ADDR_PKT_EL1
    /\ Low56(unit.pkt.payload) # {}
    /\ unit.rec.from_ip # unit.out.from_ip
    /\ unit.out.from_ip = Low56(unit.pkt.payload) \cup (56..63)

\* C13: for the data-virtual selector the top byte is 0xFF exactly when bits
\* 55:52 of the payload are all set and 0x00 otherwise; for the data-physical
\* selector the top byte is always 0x00; bits 55:0 are the payload's.
C13_DataAddressFill ==
    /\ AddressDone({2}) =>
          unit.ip = Low56(unit.pkt.payload)
                    \cup (IF (52..55) \subseteq unit.pkt.payload THEN 56..63 ELSE {})
    /\ AddressDone({3}) => unit.ip = Low56(unit.pkt.payload)

C13_Witness ==
    /\ AddressDone({2})
    /\ (52..55) \subseteq unit.pkt.payload
    /\ TopByte(unit.pkt.payload) = {56}
    /\ unit.out.virt_addr = Low56(unit.pkt.payload) \cup (56..63)

\* The switch is about to run on an Address packet with an unsupported selector.
AtUnsupported ==
    /\ pc = "dispatch"
    /\ packet.type = "ARM_SPE_ADDRESS"
    /\ packet.index \notin {0, 1, 2, 3, 4}

\* C14: on an unsupported selector the Address Calculator returns the raw
\* payload, the diagnostic is emitted at most once per distinct selector value
\* over all calls, no record field changes and decode goes on with the next
\* packet.
C14_UnsupportedSelectorHarmless ==
    /\ [](\A i, j \in DOMAIN warned : warned[i] = warned[j] => i = j)
    /\ [][AtUnsupported =>
            /\ ip' = packet.payload
            /\ warned' \in {warned, Append(warned, packet.index)}
            /\ record' = record
            /\ pc' = "fetch"]_vars

C14_Witness ==
    /\ pc = "fetch"
    /\ Len(consumed) = 3
    /\ \A i \in 1..3 : /\ consumed[i].type = "ARM_SPE_ADDRESS"
                        /\ consumed[i].index \notin {0, 1, 2, 3, 4}
    /\ consumed[1].index = consumed[2].index
    /\ consumed[3].index # consumed[1].index
    /\ warned = <<consumed[1].index, consumed[3].index>>
    /\ ip = consumed[3].payload
    /\ TopByte(ip) \notin {{}, 56..63}
    /\ record = ResetRecord

\* The diagnostics one instance emits for these Address indexes when no other
\* instance runs: arm_spe_calc_ip applied in order, seen_idx its own.
RECURSIVE AloneWarned(_, _)
AloneWarned(indexes, seen) ==
    IF indexes = << >> THEN << >>
    ELSE calc_ip_warns(Head(indexes), seen)
         \o AloneWarned(Tail(indexes), calc_ip_seen(Head(indexes), seen))

\* C15: whatever the other instance does, the diagnostics an instance has
\* emitted are those it emits for the same packets when it runs alone.
C15_InstancesIndependent ==
    two.phase = "on" =>
        \A x \in Instances :
            two.inst[x].warned = AloneWarned(two.inst[x].done, {})

LenLess(a, b) == a.hi < b.hi \/ (a.hi = b.hi /\ a.lo < b.lo)

\* C16: every decode call returns; every pass of the packet loop takes at
\* least one byte off the cursor, and a pull either ends the call or leaves
\* bytes for the pass to take.
C16_EveryCallReturns ==
    /\ (pc # "idle") ~> (pc = "idle")
    /\ [][/\ AtPacket => LenLess(len', len)
          /\ (pc = "fetch" /\ NeedData(len)) => (pc' = "idle" \/ ~LenIsZero(len'))]_vars

C16_Witness ==
    /\ Returned
    /\ exit = "record"
    /\ npulls = 2
    /\ Len(consumed) = 3

\* C17: a pull is issued only when the cursor has no bytes left, so it drops
\* no unconsumed byte; after it the cursor is the new span alone, or, when the
\* Source failed, the empty cursor it was.
C17_PullOnlyWhenEmpty ==
    [][npulls' = npulls + 1 =>
          /\ LenIsZero(len) /\ buf = << >>
          /\ \/ pull'.ret < 0 /\ buf' = buf /\ len' = len
             \/ pull'.ret >= 0 /\ buf' = pull'.cells /\ len' = pull'.len]_vars

C17_Witness ==
    /\ pc = "packet"
    /\ npulls = 2
    /\ Len(consumed) = MaxSpanCells
    /\ Len(buf) = 1
    /\ buf = pull.cells

\* ---------------------------------------------------------- frame properties
\* The record field the spec designates for a non-terminal packet, if any.
Designated(pkt) ==
    CASE pkt.type = "ARM_SPE_ADDRESS" ->
            (CASE pkt.index = 0 -> {"from_ip"}
               [] pkt.index = 1 -> {"to_ip"}
               [] pkt.index = 2 -> {"virt_addr"}
               [] pkt.index = 3 -> {"phys_addr"}
               [] pkt.index = 4 -> {"prev_br_tgt"}
               [] OTHER -> {})
      [] pkt.type = "ARM_SPE_COUNTER" -> IF pkt.index = 0 THEN {"latency"} ELSE {}
      [] pkt.type = "ARM_SPE_CONTEXT" -> {"context_id"}
      [] pkt.type = "ARM_SPE_OP_TYPE" -> {"op"}
      [] pkt.type = "ARM_SPE_EVENTS" -> {"type"}
      [] pkt.type = "ARM_SPE_DATA_SOURCE" -> {"source"}
      [] OTHER -> {}

NonTerminal ==
    {"ARM_SPE_ADDRESS", "ARM_SPE_COUNTER", "ARM_SPE_CONTEXT", "ARM_SPE_OP_TYPE",
     "ARM_SPE_EVENTS", "ARM_SPE_DATA_SOURCE", "ARM_SPE_BAD"}

\* C18: a non-terminal packet changes no record field but its designated one;
\* a Counter packet with another sub-selector than total latency and a Bad
\* packet change none, and the assembly goes on after them.
C18_OnlyDesignatedFieldChanges ==
    (unit.phase = "out" /\ unit.pkt.type \in NonTerminal) =>
        /\ \A f \in DOMAIN unit.rec \ Designated(unit.pkt) : unit.out[f] = unit.rec[f]
        /\ \/ unit.pkt.type = "ARM_SPE_BAD"
           \/ unit.pkt.type = "ARM_SPE_COUNTER" /\ unit.pkt.index # 0
           => unit.out = unit.rec /\ ~unit.ctl.returns

C18_Witness ==
    /\ unit.phase = "out"
    /\ unit.pkt.type = "ARM_SPE_ADDRESS"
    /\ unit.pkt.index = 4
    /\ unit.rec = BusyRecord
    /\ unit.out = [BusyRecord EXCEPT !.prev_br_tgt = unit.ip]
    /\ unit.out # unit.rec

\* --------------------------------------------------------- cursor accounting
\* The cursor stands k bytes into the span pulled last.
CursorAt(k) ==
    /\ buf = Drop(span.cells, k)
    /\ \/ len = LenSub(span.len, k)
       \/ k = Len(span.cells) /\ LenIsZero(len)

\* C19: the remaining length stays between 0 and the length of the span
\* pulled last, the cursor is a position in that span, and it moves only
\* forward: by the bytes of one decoded packet, or by the one byte skipped
\* when the call returns -EBADMSG; the switch and the caller leave it alone.
C19_CursorAccounting ==
    /\ [](/\ len.hi >= 0 /\ len.lo >= 0
          /\ ~LenLess(span.len, len)
          /\ \E k \in 0..Len(span.cells) : CursorAt(k))
    /\ [][/\ (AtPacket /\ buf # << >>) =>
               \E n \in 1..Len(buf) :
                  /\ LenAtLeast(len, n)
                  /\ buf' = Drop(buf, n)
                  /\ len' = LenSub(len, n)
                  /\ IF pc' = "idle"
                     THEN n = 1 /\ ret' = -EBADMSG
                     ELSE n = Head(buf).size /\ packet' = PacketOf(Head(buf))
          /\ pc \in {"idle", "dispatch"} => buf' = buf /\ len' = len]_vars

C19_Witness ==
    /\ Returned
    /\ exit = "record"
    /\ prevExit = "badmsg"
    /\ Len(span.cells) = 2
    /\ span.len = LenOf(2)
    /\ buf = << >>
    /\ LenIsZero(len)
    /\ npulls = 0

\* ------------------------------------------------------------ return values
\* The condition a completed call ended on, by the statement that returned
\* and by what the Source answered.
EndedOn ==
    CASE exit = "record" -> "RecordReady"
      [] exit = "badmsg" -> "MalformedPacket"
      [] exit = "violation" -> "ProtocolViolation"
      [] exit = "data" /\ pull.ret < 0 -> "SourceFailure"
      [] exit = "data" /\ pull.ret >= 0 /\ LenIsZero(pull.len) -> "EndOfStream"
      [] OTHER -> "none"

\* C20: the value a call returns tells which condition it ended on: 1 is
\* RecordReady only, 0 EndOfStream only, -EBADMSG MalformedPacket only, -1
\* ProtocolViolation only, and any other value a Source failure.
C20_ReturnValueTellsCondition ==
    Returned =>
        EndedOn = (CASE ret = 1 -> "RecordReady"
                     [] ret = 0 -> "EndOfStream"
                     [] ret = -EBADMSG -> "MalformedPacket"
                     [] ret = -1 -> "ProtocolViolation"
                     [] OTHER -> "SourceFailure")

====
